---------------------------- MODULE Spec2Model ----------------------------
(***************************************************************************)
(* Receiver side of ostree-upload: the update queue (queue.go), the HTTP   *)
(* handlers (handlers.go: info, create, delete, missing objects, upload,   *)
(* done), the staging directory and the live object store.                 *)
(*                                                                         *)
(* Every request is served by its own goroutine; a handler is modelled as  *)
(* a sequence of steps, one per access to shared state (queue transaction, *)
(* entry field, file system call, ref update), so that the steps of        *)
(* concurrent requests interleave.  File system calls fail only for the    *)
(* reasons the program state gives (a path that does not exist); media     *)
(* errors are not modelled.                                                *)
(*                                                                         *)
(* Spec is the receiver serving the requests that passed its router.       *)
(* GateSpec puts the router (server.go: TokenVerifier, /api/v1, /ping) in  *)
(* front of the handlers, and ClientSpec runs one push (client.go:         *)
(* StartClient, pusher.go) against the receiver.  SharedSpec runs the push *)
(* while another entry has staged an object, BranchesSpec runs pushes of   *)
(* one or two branches, ListSpec sends create bodies with repeated, short  *)
(* and empty object lists, WalkSpec applies FindNeededCommits to the       *)
(* histories over three commits.  ReachableSpec is the push whose delete   *)
(* request always reaches the receiver, under weak fairness of its steps,  *)
(* and FileOnlySpec the receiver serving uploads without checksum parts.   *)
(***************************************************************************)
EXTENDS Integers, Sequences, FiniteSets, Bags, TLC

\* ----------------------------------------------------------------- bounds
MaxEntries == 2      \* queue entries ever created (fresh ids 1..MaxEntries)
MaxRequests == 2     \* requests in flight at the same time
MaxParts == 1        \* "file" parts read from one multipart stream

\* ------------------------------------------------------ program constants
StatusOK == 200
StatusNotFound == 404
StatusUnprocessableEntity == 422
StatusInternalServerError == 500

\* -------------------------------------------------------------- the world
Branches == {"stable", "devel"}
NoRev == ""
\* common.RevisionPair submitted by the k-th push: each push publishes a
\* commit of its own on top of the one before
RevisionPair(k) ==
    [Server |-> IF k = 1 THEN NoRev ELSE "C" \o ToString(k - 1), Client |-> "C" \o ToString(k)]
ObjectNames == {"c1.commit", "f1.file"}
\* common.QueueRequest, the bodies of POST /queue: a push to stable of a
\* commit with one file, a push to devel of a commit without files
QueueRequests ==
    { [Refs |-> {"stable"}, Objects |-> <<"c1.commit", "f1.file">>],
      [Refs |-> {"devel"}, Objects |-> <<"c1.commit">>] }

\* File contents.  Good is the content of the object in the client's
\* repository, Bad any other bytes, Empty a file just created or truncated.
Absent == "absent"
Empty == "empty"
Good == "good"
Bad == "bad"
\* the bytes a "file" part carries for an object: the file object may arrive
\* damaged
PartData(objectName) == IF objectName = "f1.file" THEN {Good, Bad} ELSE {Good}

Ids == 1..MaxEntries

\* common.CalculateChecksum: hex SHA-256 of the bytes stored in a file
CalculateChecksum(c) ==
    CASE c = Good -> "9f86"
      [] c = Bad -> "60303"
      [] OTHER -> "e3b0"

\* the checksum the client computed from its own repository (Object.Checksum)
ClientChecksum == CalculateChecksum(Good)

\* http.StatusUnauthorized
StatusUnauthorized == 401

\* ------------------------------------------------------------- the tokens
\* Header values and tokens are sequences of characters.
T1 == <<"T", "1">>
T2 == <<"T", "2">>
\* appState.Config.Tokens: the tokens of the configuration file
Tokens == {T1}

\* the value of an Authorization header: a scheme, one character, a token
Authorization(scheme, token) == scheme \o <<" ">> \o token
BEARER == <<"B", "E", "A", "R", "E", "R">>
Bearer == <<"B", "e", "a", "r", "e", "r">>
Basic == <<"B", "a", "s", "i", "c">>
\* no header, the header the client sends (api.go newRequest) with a
\* configured token and with another one, the same in the usual spelling,
\* another scheme, and the scheme with nothing after it
Headers ==
    { <<>>, Authorization(BEARER, T1), Authorization(BEARER, T2),
      Authorization(Bearer, T1), Authorization(Bearer, T2),
      Authorization(Basic, T1), Authorization(BEARER, <<>>) }

\* strings.ToUpper
ToUpper(str) ==
    [k \in 1..Len(str) |->
        CASE str[k] = "a" -> "A" [] str[k] = "c" -> "C" [] str[k] = "e" -> "E"
          [] str[k] = "i" -> "I" [] str[k] = "r" -> "R" [] str[k] = "s" -> "S"
          [] OTHER -> str[k]]

\* tokenFromHeader: what follows the seventh character of a header that
\* starts with "bearer" in any case, or the empty string
tokenFromHeader(bearer) ==
    IF Len(bearer) > 7 /\ ToUpper(SubSeq(bearer, 1, 6)) = BEARER
    THEN SubSeq(bearer, 8, Len(bearer))
    ELSE <<>>

\* faulty variant of the middleware: any token is accepted
TokenVerifierAnyToken(header) == tokenFromHeader(header) # <<>>

\* TokenVerifier: the request goes on to next.ServeHTTP
TokenVerifier(header) ==
    LET tokenString == tokenFromHeader(header)
    IN IF tokenString = <<>>
       THEN FALSE
       ELSE \E token \in Tokens : token = tokenString

\* ------------------------------------------------- the local repository
\* A repository of the pusher: the parent of each commit it holds (NoRev:
\* none), the objects reachable from each commit, and the objects that are
\* at their path in the objects directory.
RootRepo ==
    [parent |-> [c \in {"C1"} |-> NoRev],
     objects |-> [c \in {"C1"} |-> {"c1.commit", "f1.file"}],
     disk |-> {"c1.commit", "f1.file"}]
ChainRepo ==
    [parent |-> [c \in {"C0", "C1"} |-> IF c = "C1" THEN "C0" ELSE NoRev],
     objects |-> [c \in {"C0", "C1"} |->
                     IF c = "C1" THEN {"c1.commit", "f1.file"} ELSE {"c0.commit"}],
     disk |-> {"c0.commit", "c1.commit", "f1.file"}]
\* a repository that holds the commit C1 without its parent
ShallowRepo ==
    [parent |-> [c \in {"C1"} |-> "C0"],
     objects |-> [c \in {"C1"} |-> {"c1.commit", "f1.file"}],
     disk |-> {"c1.commit", "f1.file"}]
\* repositories that lost a file: an object of C1, and the commit object of
\* its parent C0
CorruptRepo == [RootRepo EXCEPT !.disk = {"c1.commit"}]
CorruptParentRepo == [ChainRepo EXCEPT !.disk = {"c1.commit", "f1.file"}]

\* A push of the branch stable, at C1 in the local repository: the
\* repository and the revision the receiver has for the branch.  A fresh
\* branch, an increment, the same revision on both sides, a receiver at
\* a commit X0 the local history does not contain, and repositories with a
\* file missing.
Scenarios ==
    { [repo |-> RootRepo, server |-> NoRev],
      [repo |-> ChainRepo, server |-> "C0"],
      [repo |-> ShallowRepo, server |-> "C0"],
      [repo |-> ChainRepo, server |-> "C1"],
      [repo |-> RootRepo, server |-> "X0"],
      [repo |-> ChainRepo, server |-> "X0"],
      [repo |-> ShallowRepo, server |-> "X0"],
      [repo |-> CorruptRepo, server |-> NoRev],
      [repo |-> CorruptRepo, server |-> "C1"],
      [repo |-> CorruptParentRepo, server |-> "C0"] }

NotDescendent == "remote commit not descendent of commit"

\* faulty variant of the loop: it stops after the first commit
WalkOneCommit(repo, remoteRev, parent, commits) ==
    IF parent = remoteRev
    THEN [commits |-> commits, parent |-> parent, err |-> ""]
    ELSE [commits |-> Append(commits, parent), parent |-> remoteRev, err |-> ""]

\* the loop of FindNeededCommits from the commit parent on: the commits
\* appended, the commit the loop stopped at, the error of GetParentRev
RECURSIVE WalkParents(_, _, _, _)
WalkParents(repo, remoteRev, parent, commits) ==
    IF parent = remoteRev
    THEN [commits |-> commits, parent |-> parent, err |-> ""]
    ELSE IF parent \notin DOMAIN repo.parent
    THEN [commits |-> <<>>, parent |-> parent, err |-> "commit doesn't exist"]
    ELSE IF repo.parent[parent] = NoRev
    THEN [commits |-> Append(commits, parent), parent |-> parent, err |-> ""]
    ELSE WalkParents(repo, remoteRev, repo.parent[parent], Append(commits, parent))

\* faulty variant of FindNeededCommits: the local commit is needed, whatever
\* the remote revision is
FindNeededCommitsUnchecked(repo, remoteRev, localRev) ==
    [commits |-> <<localRev>>, err |-> ""]

\* Pusher.FindNeededCommits
FindNeededCommits(repo, remoteRev, localRev) ==
    LET walk == WalkParents(repo, remoteRev, localRev, <<>>)
    IN IF walk.err # ""
       THEN [commits |-> <<>>, err |-> walk.err]
       ELSE IF remoteRev # NoRev /\ walk.parent # remoteRev
       THEN [commits |-> <<>>, err |-> NotDescendent]
       ELSE [commits |-> walk.commits, err |-> ""]

\* faulty variant of CheckUpdate: a pair for every branch
CheckUpdateEveryBranch(branches, remoteRefs) ==
    [b \in DOMAIN branches |-> [Server |-> remoteRefs[b], Client |-> branches[b]]]

\* Pusher.CheckUpdate: a pair for every branch whose revisions differ
CheckUpdate(branches, remoteRefs) ==
    LET differ == { b \in DOMAIN branches : branches[b] # remoteRefs[b] }
    IN [b \in differ |-> [Server |-> remoteRefs[b], Client |-> branches[b]]]

\* faulty variant of FindObjectsForCommits: the objects are not looked up
\* on disk
FindObjectsForCommitsNoStat(repo, revs) ==
    [objects |-> UNION { repo.objects[rev] : rev \in revs }, err |-> ""]

\* Pusher.FindObjectsForCommits: the objects TraverseCommit reaches from
\* the commits, or the error of os.Stat for one that is not at its path
FindObjectsForCommits(repo, revs) ==
    LET reached == UNION { repo.objects[rev] : rev \in revs }
    IN IF reached \subseteq repo.disk
       THEN [objects |-> reached, err |-> ""]
       ELSE [objects |-> {}, err |-> "no such file or directory"]

\* Pusher.FindObjectsToPush: the objects of the needed commits of every
\* branch, or the error of FindNeededCommits for one of them
FindObjectsToPush(repo, updateRefs) ==
    LET needed == [b \in DOMAIN updateRefs |->
                      FindNeededCommits(repo, updateRefs[b].Server, updateRefs[b].Client)]
        failed == { b \in DOMAIN updateRefs : needed[b].err # "" }
        commits == UNION { { needed[b].commits[k] : k \in 1..Len(needed[b].commits) } :
                           b \in DOMAIN updateRefs }
    IN IF failed # {}
       THEN [objects |-> {}, err |-> needed[CHOOSE b \in failed : TRUE].err]
       ELSE FindObjectsForCommits(repo, commits)

\* the orders in which a range over the map of objects yields its keys
Orders(names) ==
    { order \in [1..Cardinality(names) -> names] :
        \A n \in names : \E k \in 1..Cardinality(names) : order[k] = n }

\* ------------------------------------------------------------------ state
VARIABLES
    entries,    \* QueueEntry objects on the heap, by id
    queue,      \* ids stored in the memdb table "entry"
    nextId,     \* next fresh id of sid.IdBase64
    staging,    \* <repo>/tmp/ostree-upload/<name>: content or Absent
    live,       \* <repo>/objects/<xx>/<rest>: content or Absent
    refs,       \* branch -> revision of the repository
    handlers,   \* the requests being served: a bag of handler records
    response,   \* the HTTP response written by the last step, if any
    client      \* the program on the other end of the connection

vars == <<entries, queue, nextId, staging, live, refs, handlers, response, client>>

NoEntry == [UpdateRefs |-> <<>>, Objects |-> <<>>, Finalizing |-> FALSE]

\* the local variables of a handler; Idle is a handler that has returned
Idle == [kind |-> "idle", pc |-> "idle", id |-> 0, i |-> 0,
         missing |-> <<>>, nparts |-> 0, name |-> "", data |-> Absent,
         linked |-> FALSE, checksums |-> [n \in ObjectNames |-> ""],
         todo |-> {}, nset |-> 0]

NoResponse == [kind |-> "", id |-> 0, status |-> 0, text |-> "",
               objects |-> <<>>]

\* a request of the client: method and path as kind and id, the
\* Authorization header, the body of POST /queue, the object of a PUT
NoRequest == [kind |-> "", id |-> 0, header |-> <<>>, refs |-> <<>>,
              objects |-> <<>>, name |-> ""]

\* the local variables of StartClient, the request that is on its way, the
\* requests issued so far, and what StartClient returned
NoClient == [pc |-> "none", req |-> NoRequest, header |-> <<>>,
             repo |-> RootRepo, branches |-> <<>>, updateRefs |-> <<>>,
             objects |-> <<>>, queueID |-> 0, wanted |-> <<>>,
             sent |-> <<>>, err |-> "", result |-> ""]

Init ==
    /\ entries = [id \in Ids |-> NoEntry]
    /\ queue = {}
    /\ nextId = 1
    /\ staging = [n \in ObjectNames |-> Absent]
    /\ live = [n \in ObjectNames |-> Absent]
    /\ refs = [b \in Branches |-> NoRev]
    /\ handlers = EmptyBag
    /\ response = NoResponse
    /\ client = NoClient

\* ---------------------------------------------------------------- helpers
\* the server takes one more request
Accepts == BagCardinality(handlers) < MaxRequests

\* the bag without the handler r, and with the handler r if it has not returned
Without(r) == IF r = Idle THEN handlers ELSE handlers (-) SetToBag({r})
With(hs, r) == IF r = Idle THEN hs ELSE hs (+) SetToBag({r})

\* Entries no longer referenced by the table or by a handler are collected.
Collect(es, q, hs) ==
    [id \in Ids |->
        IF id \in q \/ \E r \in BagToSet(hs) : r.id = id THEN es[id] ELSE NoEntry]

\* one step of the handler rec (Idle: a request that arrives): its local
\* variables after the step (Idle: it returns), the reply it writes
\* (NoResponse while it goes on), the heap and the table after the step
Step(rec, new, resp, es, q) ==
    /\ handlers' = With(Without(rec), new)
    /\ response' = resp
    /\ queue' = q
    /\ entries' = Collect(es, q, With(Without(rec), new))
    /\ client' = client

\* http.Error / WriteHeader
Reply(kind, id, status, text) ==
    [NoResponse EXCEPT !.kind = kind, !.id = id, !.status = status, !.text = text]

\* the error messages the properties below refer to
EntryNotFound == "queue entry not found"
AlmostDone == "cannot upload objects when the update process is almost done"
BadChecksum == "bad checksum"
AlreadyFinalizing == "already finalizing"
UnableToMove == "unable to move"

\* Queue.GetEntry: the entry with this id is in the table
GetEntry(id) == id \in queue

\* ------------------------------------------------------------ InfoHandler
\* GET /info: repo.ListRevisions
InfoHandler ==
    /\ Accepts
    /\ Step(Idle, Idle, Reply("info", 0, StatusOK, ""), entries, queue)
    /\ UNCHANGED <<nextId, staging, live, refs>>

\* ----------------------------------------------------- CreateEntryHandler
\* faulty variant of the walk function: it looks only at the entries that
\* are being finalized
BusyBranchesFinalizing(reqBranches) ==
    { b \in reqBranches :
        \E id \in queue : entries[id].Finalizing /\ b \in DOMAIN entries[id].UpdateRefs }

\* the walk function: the branches of req.Refs that an entry of the table
\* is already updating
BusyBranches(reqBranches) ==
    { b \in reqBranches : \E id \in queue : b \in DOMAIN entries[id].UpdateRefs }

\* the error message of a conflict
AlreadyUpdating(branch) == "branch \"" \o branch \o "\" is already being updated"

\* POST /queue, first step: decode the body and Walk the queue in a read
\* transaction, looking for a branch that is already being updated.
CreateWalk(reqBranches) ==
    /\ Accepts
    /\ nextId + CopiesIn("create_add", BagOfAll(LAMBDA r : r.pc, handlers)) <= MaxEntries
    /\ IF BusyBranches(reqBranches) # {}
       THEN \E b \in BusyBranches(reqBranches) :
                Step(Idle, Idle, Reply("create", 0, StatusInternalServerError,
                                      AlreadyUpdating(b)), entries, queue)
       ELSE Step(Idle, [Idle EXCEPT !.kind = "create", !.pc = "create_add",
                                    !.todo = reqBranches], NoResponse, entries, queue)
    /\ UNCHANGED <<nextId, staging, live, refs>>

\* POST /queue, second step: a fresh id and AddEntry in a write transaction.
\* The walk reads only the branch names of the request; its revisions and
\* objects meet no other state before this step, so they are given here.
CreateAdd(rec, reqRefs, reqObjects) ==
    /\ rec.pc = "create_add"
    /\ LET queueEntry == [UpdateRefs |-> reqRefs,
                          Objects |-> reqObjects, Finalizing |-> FALSE]
       IN Step(rec, Idle, Reply("create", nextId, StatusOK, ""),
               [entries EXCEPT ![nextId] = queueEntry], queue \cup {nextId})
    /\ nextId' = nextId + 1
    /\ UNCHANGED <<staging, live, refs>>

\* ----------------------------------------------------- DeleteEntryHandler
\* DELETE /queue/{id}, first step: GetEntry in a read transaction
DeleteGet(id) ==
    /\ Accepts
    /\ IF GetEntry(id)
       THEN Step(Idle, [Idle EXCEPT !.kind = "delete", !.pc = "del_remove", !.id = id],
                 NoResponse, entries, queue)
       ELSE Step(Idle, Idle, Reply("delete", id, StatusNotFound, EntryNotFound), entries, queue)
    /\ UNCHANGED <<nextId, staging, live, refs>>

\* faulty variant of the removal: the staged files of the entry's objects
\* are removed with it
DeleteRemoveCleans(rec) ==
    /\ rec.pc = "del_remove"
    /\ IF rec.id \in queue
       THEN /\ Step(rec, Idle, Reply("delete", rec.id, StatusOK, ""), entries,
                    queue \ {rec.id})
            /\ staging' = [n \in ObjectNames |->
                              IF \E k \in 1..Len(entries[rec.id].Objects) :
                                     entries[rec.id].Objects[k] = n
                              THEN Absent ELSE staging[n]]
       ELSE /\ Step(rec, Idle, Reply("delete", rec.id, StatusUnprocessableEntity, "not found"),
                    entries, queue)
            /\ staging' = staging
    /\ UNCHANGED <<nextId, live, refs>>

\* DELETE /queue/{id}, second step: RemoveEntry in a write transaction;
\* txn.Delete fails when the entry is no longer in the table.
DeleteRemove(rec) ==
    /\ rec.pc = "del_remove"
    /\ IF rec.id \in queue
       THEN Step(rec, Idle, Reply("delete", rec.id, StatusOK, ""), entries, queue \ {rec.id})
       ELSE Step(rec, Idle, Reply("delete", rec.id, StatusUnprocessableEntity, "not found"), entries, queue)
    /\ UNCHANGED <<nextId, staging, live, refs>>

\* --------------------------------------------------------- ObjectsHandler
\* the loop of ObjectsHandler at position new.i of entry.Objects: it goes on
\* with the next name, or replies with the names found missing
ObjectsLoop(rec, new) ==
    IF new.i > Len(entries[new.id].Objects)
    THEN Step(rec, Idle, [Reply("objects", new.id, StatusOK, "") EXCEPT !.objects = new.missing],
              entries, queue)
    ELSE Step(rec, new, NoResponse, entries, queue)

\* GET /queue/{id}, first step: GetEntry
ObjectsGet(id) ==
    /\ Accepts
    /\ IF GetEntry(id)
       THEN ObjectsLoop(Idle, [Idle EXCEPT !.kind = "objects", !.pc = "obj_stat",
                                           !.id = id, !.i = 1])
       ELSE Step(Idle, Idle, Reply("objects", id, StatusNotFound, EntryNotFound), entries, queue)
    /\ UNCHANGED <<nextId, staging, live, refs>>

\* faulty variant of the scan: it looks at the staged path only
ObjectsStatStagingOnly(rec) ==
    /\ rec.pc = "obj_stat"
    /\ LET objectName == entries[rec.id].Objects[rec.i]
           isMissing == staging[objectName] = Absent
       IN ObjectsLoop(rec, [rec EXCEPT !.i = rec.i + 1,
                                !.missing = IF isMissing THEN Append(rec.missing, objectName)
                                            ELSE rec.missing])
    /\ UNCHANGED <<nextId, staging, live, refs>>

\* GET /queue/{id}: os.Stat of the staged and of the live path of one name;
\* the name is missing when neither exists
ObjectsStat(rec) ==
    /\ rec.pc = "obj_stat"
    /\ LET objectName == entries[rec.id].Objects[rec.i]
           isMissing == staging[objectName] = Absent /\ live[objectName] = Absent
       IN ObjectsLoop(rec, [rec EXCEPT !.i = rec.i + 1,
                                !.missing = IF isMissing THEN Append(rec.missing, objectName)
                                            ELSE rec.missing])
    /\ UNCHANGED <<nextId, staging, live, refs>>

\* ---------------------------------------------------------- UploadHandler
\* faulty variant of the first step of an upload: no check of Finalizing
UploadGetUnguarded(id) ==
    /\ Accepts
    /\ IF ~GetEntry(id)
       THEN Step(Idle, Idle, Reply("upload", id, StatusNotFound, EntryNotFound), entries, queue)
       ELSE Step(Idle, [Idle EXCEPT !.kind = "upload", !.pc = "up_part", !.id = id],
                 NoResponse, entries, queue)
    /\ UNCHANGED <<nextId, staging, live, refs>>

\* PUT /queue/{id}, first step: GetEntry and the check of entry.Finalizing
UploadGet(id) ==
    /\ Accepts
    /\ IF ~GetEntry(id)
       THEN Step(Idle, Idle, Reply("upload", id, StatusNotFound, EntryNotFound), entries, queue)
       ELSE IF entries[id].Finalizing
       THEN Step(Idle, Idle, Reply("upload", id, StatusUnprocessableEntity, AlmostDone),
                 entries, queue)
       ELSE Step(Idle, [Idle EXCEPT !.kind = "upload", !.pc = "up_part", !.id = id],
                 NoResponse, entries, queue)
    /\ UNCHANGED <<nextId, staging, live, refs>>

\* mr.NextPart returns io.EOF: all parts were read
UploadEOF(rec) ==
    /\ rec.pc = "up_part"
    /\ Step(rec, Idle, Reply("upload", rec.id, StatusOK, ""), entries, queue)
    /\ UNCHANGED <<nextId, staging, live, refs>>

\* a "file" part: os.Stat of the staged path, whose error os.IsExist never
\* accepts, then os.Create, which creates the file or truncates the one there
UploadFilePart(rec, objectName) ==
    /\ rec.pc = "up_part"
    /\ rec.nparts < MaxParts
    /\ staging' = [staging EXCEPT ![objectName] = Empty]
    /\ Step(rec, [rec EXCEPT !.pc = "up_copy", !.name = objectName, !.linked = TRUE,
                             !.nparts = @ + 1],
            NoResponse, entries, queue)
    /\ UNCHANGED <<nextId, live, refs>>

\* the content of a file after bytes are written from its start: the file
\* was truncated when this writer created it, so content that is there was
\* written since by another writer, and what of it lies beyond the new
\* bytes stays
Overwrite(old, bytes) ==
    IF old = Empty \/ old = bytes THEN {bytes} ELSE {bytes, Bad}

\* io.Copy(objectFile, part): the bytes of the part, as they come from the
\* network, go to the file the handler created, which is no longer the
\* staged path once that was removed
UploadCopy(rec, bytes) ==
    /\ rec.pc = "up_copy"
    /\ IF rec.linked
       THEN \E content \in Overwrite(staging[rec.name], bytes) :
                staging' = [staging EXCEPT ![rec.name] = content]
       ELSE staging' = staging
    /\ Step(rec, [rec EXCEPT !.pc = "up_sum", !.linked = FALSE], NoResponse, entries, queue)
    /\ UNCHANGED <<nextId, live, refs>>

\* common.CalculateChecksum(objectPath) reads the staged path back
UploadChecksum(rec) ==
    /\ rec.pc = "up_sum"
    /\ IF staging[rec.name] = Absent
       THEN Step(rec, Idle, Reply("upload", rec.id, StatusInternalServerError,
                                  "no such file or directory"), entries, queue)
       ELSE Step(rec, [rec EXCEPT !.pc = "up_part", !.name = "",
                           !.checksums[rec.name] = CalculateChecksum(staging[rec.name])],
                 NoResponse, entries, queue)
    /\ UNCHANGED <<nextId, staging, live, refs>>

\* a "checksum" part "<object-name>:<digest>": compared with the digest
\* computed for that name in this request; on a mismatch the request fails
\* and the staged file is left in place (the os.Remove is commented out)
UploadChecksumPart(rec, objectName, checksum) ==
    /\ rec.pc = "up_part"
    /\ IF rec.checksums[objectName] # checksum
       THEN Step(rec, Idle, [Reply("upload", rec.id, StatusUnprocessableEntity, BadChecksum)
                                EXCEPT !.objects = <<objectName>>], entries, queue)
       ELSE Step(rec, rec, NoResponse, entries, queue)
    /\ UNCHANGED <<nextId, staging, live, refs>>

\* faulty variant of the last branch of the loop: the error is written and
\* the loop goes on with the next part
UploadOtherPartGoesOn(rec) ==
    /\ rec.pc = "up_part"
    /\ Step(rec, rec, Reply("upload", rec.id, StatusUnprocessableEntity,
                            "unsupported form field"), entries, queue)
    /\ UNCHANGED <<nextId, staging, live, refs>>

\* a part with any other form name
UploadOtherPart(rec) ==
    /\ rec.pc = "up_part"
    /\ Step(rec, Idle, Reply("upload", rec.id, StatusUnprocessableEntity,
                          "unsupported form field"), entries, queue)
    /\ UNCHANGED <<nextId, staging, live, refs>>

\* ------------------------------------------------------------ DoneHandler
\* GET /done/{id}, first step: GetEntry and the check of entry.Finalizing
DoneGet(id) ==
    /\ Accepts
    /\ IF ~GetEntry(id)
       THEN Step(Idle, Idle, Reply("done", id, StatusNotFound, EntryNotFound), entries, queue)
       ELSE IF entries[id].Finalizing
       THEN Step(Idle, Idle, Reply("done", id, StatusInternalServerError, AlreadyFinalizing),
                 entries, queue)
       ELSE Step(Idle, [Idle EXCEPT !.kind = "done", !.pc = "done_set", !.id = id],
                 NoResponse, entries, queue)
    /\ UNCHANGED <<nextId, staging, live, refs>>

\* the loop of DoneHandler at position i of entry.Objects; after the last
\* object UpdateRefs ranges over entry.UpdateRefs, then the entry is removed
DoneLoop(rec, i) ==
    IF i <= Len(entries[rec.id].Objects)
    THEN [rec EXCEPT !.pc = "mv_stat", !.i = i, !.name = entries[rec.id].Objects[i],
                     !.linked = FALSE, !.data = Absent]
    ELSE [rec EXCEPT !.pc = IF DOMAIN entries[rec.id].UpdateRefs = {} THEN "remove" ELSE "refs",
                     !.i = i, !.name = "", !.linked = FALSE, !.data = Absent,
                     !.todo = DOMAIN entries[rec.id].UpdateRefs]

\* faulty variant of the finalization: the refs are updated without moving
\* the objects first
DoneSetFinalizingThenRefs(rec) ==
    /\ rec.pc = "done_set"
    /\ Step(rec, DoneLoop(rec, Len(entries[rec.id].Objects) + 1), NoResponse,
            [entries EXCEPT ![rec.id].Finalizing = TRUE], queue)
    /\ UNCHANGED <<nextId, staging, live, refs>>

\* entry.Finalizing = true
DoneSetFinalizing(rec) ==
    /\ rec.pc = "done_set"
    /\ Step(rec, DoneLoop(rec, 1), NoResponse,
            [entries EXCEPT ![rec.id].Finalizing = TRUE], queue)
    /\ UNCHANGED <<nextId, staging, live, refs>>

\* faulty variant of the test of the live path: the condition is inverted
MoveStatInverted(rec) ==
    /\ rec.pc = "mv_stat"
    /\ IF live[rec.name] = Absent
       THEN Step(rec, DoneLoop(rec, rec.i + 1), NoResponse, entries, queue)
       ELSE Step(rec, [rec EXCEPT !.pc = "mv_open"], NoResponse, entries, queue)
    /\ UNCHANGED <<nextId, staging, live, refs>>

\* os.MkdirAll of the object's directory and os.Stat(objectPath): an object
\* that is in the live store is not moved
MoveStat(rec) ==
    /\ rec.pc = "mv_stat"
    /\ IF live[rec.name] # Absent
       THEN Step(rec, DoneLoop(rec, rec.i + 1), NoResponse, entries, queue)
       ELSE Step(rec, [rec EXCEPT !.pc = "mv_open"], NoResponse, entries, queue)
    /\ UNCHANGED <<nextId, staging, live, refs>>

\* faulty variant of the move: the error of os.Open(source) is dropped and
\* the loop goes on with the next object
MoveOpenIgnoresError(rec) ==
    /\ rec.pc = "mv_open"
    /\ IF staging[rec.name] = Absent
       THEN /\ Step(rec, DoneLoop(rec, rec.i + 1), NoResponse, entries, queue)
            /\ live' = live
       ELSE /\ Step(rec, [rec EXCEPT !.pc = "mv_copy", !.linked = TRUE], NoResponse,
                    entries, queue)
            /\ live' = [live EXCEPT ![rec.name] = Empty]
    /\ UNCHANGED <<nextId, staging, refs>>

\* moveFile: os.Open(source), which fails when nothing is staged, then
\* os.OpenFile(destination, O_WRONLY|O_CREATE|O_TRUNC)
MoveOpen(rec) ==
    /\ rec.pc = "mv_open"
    /\ IF staging[rec.name] = Absent
       THEN /\ Step(rec, Idle, Reply("done", rec.id, StatusInternalServerError, UnableToMove),
                    entries, queue)
            /\ live' = live
       ELSE /\ Step(rec, [rec EXCEPT !.pc = "mv_copy", !.linked = TRUE], NoResponse,
                    entries, queue)
            /\ live' = [live EXCEPT ![rec.name] = Empty]
    /\ UNCHANGED <<nextId, staging, refs>>

\* moveFile: io.Copy(dst, src) from the file opened as source
MoveCopy(rec) ==
    /\ rec.pc = "mv_copy"
    /\ live' = [live EXCEPT ![rec.name] = IF rec.linked THEN staging[rec.name] ELSE rec.data]
    /\ Step(rec, [rec EXCEPT !.pc = "mv_remove", !.linked = FALSE, !.data = Absent],
            NoResponse, entries, queue)
    /\ UNCHANGED <<nextId, staging, refs>>

\* os.Remove of a staged path: the handlers that hold the file open keep
\* it, a reader with the content it had, a writer out of reach of the path
Unlinked(r, objectName) ==
    IF r.name = objectName /\ r.linked /\ r.pc = "mv_copy"
    THEN [r EXCEPT !.linked = FALSE, !.data = staging[objectName]]
    ELSE IF r.name = objectName /\ r.linked /\ r.pc = "up_copy"
    THEN [r EXCEPT !.linked = FALSE]
    ELSE r

\* moveFile: os.Remove(source), which fails when the source is gone
MoveRemove(rec) ==
    /\ rec.pc = "mv_remove"
    /\ IF staging[rec.name] = Absent
       THEN /\ Step(rec, Idle, Reply("done", rec.id, StatusInternalServerError, UnableToMove),
                    entries, queue)
            /\ staging' = staging
       ELSE /\ handlers' = With(BagOfAll(LAMBDA r : Unlinked(r, rec.name), Without(rec)),
                                DoneLoop(rec, rec.i + 1))
            /\ response' = NoResponse
            /\ UNCHANGED <<entries, queue, client>>
            /\ staging' = [staging EXCEPT ![rec.name] = Absent]
    /\ UNCHANGED <<nextId, live, refs>>

\* UpdateRefs: r.SetRefImmediate("", branch, revPair.Client) for one more
\* branch of the map, in the order the map range yields
UpdateRefs(rec, branch) ==
    /\ rec.pc = "refs"
    /\ branch \in rec.todo
    /\ refs' = [refs EXCEPT ![branch] = entries[rec.id].UpdateRefs[branch].Client]
    /\ Step(rec, [rec EXCEPT !.todo = @ \ {branch}, !.nset = @ + 1,
                             !.pc = IF rec.todo = {branch} THEN "remove" ELSE "refs"],
            NoResponse, entries, queue)
    /\ UNCHANGED <<nextId, staging, live>>

\* queue.RemoveEntry(entry), then the handler returns 200
DoneRemove(rec) ==
    /\ rec.pc = "remove"
    /\ IF rec.id \in queue
       THEN Step(rec, Idle, Reply("done", rec.id, StatusOK, ""), entries, queue \ {rec.id})
       ELSE Step(rec, Idle, Reply("done", rec.id, StatusInternalServerError, "not found"),
                 entries, queue)
    /\ UNCHANGED <<nextId, staging, live, refs>>

\* ------------------------------------------------------------------- spec
Next ==
    \/ InfoHandler
    \/ \E req \in QueueRequests : CreateWalk(req.Refs)
    \/ \E id \in Ids : DeleteGet(id)
    \/ \E id \in Ids : ObjectsGet(id)
    \/ \E id \in Ids : UploadGet(id)
    \/ \E id \in Ids : DoneGet(id)
    \/ \E rec \in BagToSet(handlers) : \E req \in QueueRequests :
           /\ req.Refs = rec.todo
           /\ CreateAdd(rec, [b \in req.Refs |-> RevisionPair(nextId)], req.Objects)
    \/ \E rec \in BagToSet(handlers) : DeleteRemove(rec)
    \/ \E rec \in BagToSet(handlers) : ObjectsStat(rec)
    \/ \E rec \in BagToSet(handlers) : UploadEOF(rec)
    \/ \E rec \in BagToSet(handlers) : \E n \in ObjectNames : UploadFilePart(rec, n)
    \/ \E rec \in BagToSet(handlers) : \E bytes \in PartData(rec.name) : UploadCopy(rec, bytes)
    \/ \E rec \in BagToSet(handlers) : UploadChecksum(rec)
    \/ \E rec \in BagToSet(handlers) : \E n \in ObjectNames :
           UploadChecksumPart(rec, n, ClientChecksum)
    \/ \E rec \in BagToSet(handlers) : UploadOtherPart(rec)
    \/ \E rec \in BagToSet(handlers) : DoneSetFinalizing(rec)
    \/ \E rec \in BagToSet(handlers) : MoveStat(rec)
    \/ \E rec \in BagToSet(handlers) : MoveOpen(rec)
    \/ \E rec \in BagToSet(handlers) : MoveCopy(rec)
    \/ \E rec \in BagToSet(handlers) : MoveRemove(rec)
    \/ \E rec \in BagToSet(handlers) : \E b \in Branches : UpdateRefs(rec, b)
    \/ \E rec \in BagToSet(handlers) : DoneRemove(rec)

Spec == Init /\ [][Next]_vars

\* ----------------------------------------------------------------- router
\* The request of the client is on its way: no handler serves it yet and no
\* response to it was written.
Pending(kind) ==
    /\ client.req.kind = kind
    /\ handlers = EmptyBag
    /\ response = NoResponse

\* the response to the request of the client was written
Replied == client.req # NoRequest /\ handlers = EmptyBag /\ response # NoResponse

\* http.Error(w, http.StatusText(http.StatusUnauthorized), ...)
Unauthorized(kind) ==
    /\ Step(Idle, Idle, Reply(kind, 0, StatusUnauthorized, "Unauthorized"), entries, queue)
    /\ UNCHANGED <<nextId, staging, live, refs>>

\* the protected group of the router: TokenVerifier, then the handler
\* mounted under /api/v1
Protected(handler) ==
    IF TokenVerifier(client.req.header) THEN handler ELSE Unauthorized(client.req.kind)

ServeInfo == Pending("info") /\ Protected(InfoHandler)
ServeCreate == Pending("create") /\ Protected(CreateWalk(DOMAIN client.req.refs))
ServeDelete == Pending("delete") /\ Protected(DeleteGet(client.req.id))
ServeObjects == Pending("objects") /\ Protected(ObjectsGet(client.req.id))
ServeUpload == Pending("upload") /\ Protected(UploadGet(client.req.id))
ServeDone == Pending("done") /\ Protected(DoneGet(client.req.id))

\* GET /ping, a public route
Ping ==
    /\ Pending("ping")
    /\ Step(Idle, Idle, Reply("ping", 0, StatusOK, "{}"), entries, queue)
    /\ UNCHANGED <<nextId, staging, live, refs>>

\* a program sends the request req once its last request was answered
Request(req) ==
    /\ client.req = NoRequest \/ Replied
    /\ client' = [client EXCEPT !.req = req]
    /\ response' = NoResponse
    /\ UNCHANGED <<entries, queue, nextId, staging, live, refs, handlers>>

\* The receiver behind its router, serving one request at a time, each with
\* any of the headers; the "checksum" parts of the uploads are apart.
GateSteps ==
    \/ \E h \in Headers : \E kind \in {"info", "ping"} :
           Request([NoRequest EXCEPT !.kind = kind, !.header = h])
    \/ \E h \in Headers : \E q \in QueueRequests :
           Request([NoRequest EXCEPT !.kind = "create", !.header = h, !.objects = q.Objects,
                                     !.refs = [b \in q.Refs |-> RevisionPair(nextId)]])
    \/ \E h \in Headers : \E id \in Ids : \E kind \in {"delete", "objects", "upload", "done"} :
           Request([NoRequest EXCEPT !.kind = kind, !.id = id, !.header = h])
    \/ ServeInfo
    \/ ServeCreate
    \/ ServeDelete
    \/ ServeObjects
    \/ ServeUpload
    \/ ServeDone
    \/ Ping
    \/ \E rec \in BagToSet(handlers) : CreateAdd(rec, client.req.refs, client.req.objects)
    \/ \E rec \in BagToSet(handlers) : DeleteRemove(rec)
    \/ \E rec \in BagToSet(handlers) : ObjectsStat(rec)
    \/ \E rec \in BagToSet(handlers) : UploadEOF(rec)
    \/ \E rec \in BagToSet(handlers) : \E n \in ObjectNames : UploadFilePart(rec, n)
    \/ \E rec \in BagToSet(handlers) : \E bytes \in PartData(rec.name) : UploadCopy(rec, bytes)
    \/ \E rec \in BagToSet(handlers) : UploadChecksum(rec)
    \/ \E rec \in BagToSet(handlers) : UploadOtherPart(rec)
    \/ \E rec \in BagToSet(handlers) : DoneSetFinalizing(rec)
    \/ \E rec \in BagToSet(handlers) : MoveStat(rec)
    \/ \E rec \in BagToSet(handlers) : MoveOpen(rec)
    \/ \E rec \in BagToSet(handlers) : MoveCopy(rec)
    \/ \E rec \in BagToSet(handlers) : MoveRemove(rec)
    \/ \E rec \in BagToSet(handlers) : \E b \in Branches : UpdateRefs(rec, b)
    \/ \E rec \in BagToSet(handlers) : DoneRemove(rec)

GateNext ==
    \/ \E rec \in BagToSet(handlers) : \E n \in ObjectNames :
           UploadChecksumPart(rec, n, ClientChecksum)
    \/ GateSteps

GateSpec == Init /\ [][GateNext]_vars

\* ------------------------------------------------------------ StartClient
\* Client.newRequest and httpClient.Do: the request leaves
Send(new, req) ==
    /\ client' = [new EXCEPT !.req = req, !.sent = Append(@, req.kind)]
    /\ response' = NoResponse
    /\ UNCHANGED <<entries, queue, nextId, staging, live, refs, handlers>>

\* StartClient returns nil or an error
Return(new, result) ==
    /\ client' = [new EXCEPT !.pc = "returned", !.req = NoRequest, !.result = result]
    /\ UNCHANGED <<entries, queue, nextId, staging, live, refs, handlers, response>>

\* the request of the client with the header of Client.newRequest
ClientRequest(kind, id) ==
    [NoRequest EXCEPT !.kind = kind, !.id = id, !.header = client.header]

\* httpClient.Do returns an error: the request does not reach the receiver
TransportError ==
    /\ client.req # NoRequest
    /\ Pending(client.req.kind)
    /\ response' = Reply(client.req.kind, 0, 0, "connection refused")
    /\ UNCHANGED <<entries, queue, nextId, staging, live, refs, handlers, client>>

\* Client.do returns an error: that of httpClient.Do, or the body of a
\* response whose status is not 200
Failed == response.status # StatusOK

\* client.GetInfo()
GetInfo ==
    /\ client.pc = "start"
    /\ Send([client EXCEPT !.pc = "info"], ClientRequest("info", 0))

\* From the response to GET /info to POST /queue: CheckUpdate over
\* info.Revs, which the response carries as the handler read them from the
\* repository, then FindObjectsToPush and NewQueueEntry.
NewQueueEntry ==
    /\ client.pc = "info"
    /\ Replied
    /\ IF Failed
       THEN Return([client EXCEPT !.err = "info"], "error")
       ELSE LET updateRefs == CheckUpdate(client.branches, refs)
                found == FindObjectsToPush(client.repo, updateRefs)
            IN IF DOMAIN updateRefs = {}
               THEN Return(client, "nil")
               ELSE IF found.err # ""
               THEN Return([client EXCEPT !.updateRefs = updateRefs, !.err = "closure"],
                           "error")
               ELSE \E objectNames \in Orders(found.objects) :
                        Send([client EXCEPT !.pc = "create", !.updateRefs = updateRefs,
                                            !.objects = objectNames],
                             [ClientRequest("create", 0) EXCEPT !.refs = updateRefs,
                                                                !.objects = objectNames])

\* from the response to POST /queue to GET /queue/{id}
SendObjectsList ==
    /\ client.pc = "create"
    /\ Replied
    /\ IF Failed
       THEN Return([client EXCEPT !.err = "create"], "error")
       ELSE Send([client EXCEPT !.pc = "objects", !.queueID = response.id],
                 ClientRequest("objects", response.id))

\* Pusher.Upload goes on with the objects wanted: a PUT for the first of
\* them, GET /done/{id} when none is left
UploadOrDone(new, wanted) ==
    IF wanted = <<>>
    THEN Send([new EXCEPT !.pc = "done", !.wanted = wanted],
              ClientRequest("done", new.queueID))
    ELSE Send([new EXCEPT !.pc = "upload", !.wanted = wanted],
              [ClientRequest("upload", new.queueID) EXCEPT !.name = Head(wanted)])

\* client.DeleteQueueEntry(queueID) after the phase err failed; StartClient
\* will return result
DeleteQueueEntry(err, result) ==
    Send([client EXCEPT !.pc = "delete", !.err = err, !.result = result],
         ClientRequest("delete", client.queueID))

\* from the response to GET /queue/{id} to the first upload
StartUpload ==
    /\ client.pc = "objects"
    /\ Replied
    /\ IF Failed
       THEN DeleteQueueEntry("objects", "error")
       ELSE UploadOrDone(client, response.objects)

\* faulty variant of the return of Client.Upload: a status other than 200
\* is an error
ContinueUploadChecked ==
    /\ client.pc = "upload"
    /\ Replied
    /\ IF Failed
       THEN DeleteQueueEntry("upload", "error")
       ELSE UploadOrDone(client, Tail(client.wanted))

\* Client.Upload returns: the error of httpClient.Do, or nil whatever the
\* status of the response is
ContinueUpload ==
    /\ client.pc = "upload"
    /\ Replied
    /\ IF response.status = 0
       THEN DeleteQueueEntry("upload", "error")
       ELSE UploadOrDone(client, Tail(client.wanted))

\* faulty variant of the end of StartClient: a failed done is logged and the
\* entry is left in the queue
FinishWithoutDelete ==
    /\ client.pc = "done"
    /\ Replied
    /\ IF Failed
       THEN Return([client EXCEPT !.err = "done"], "nil")
       ELSE Return(client, "nil")

\* client.Done(queueID) returns: an error is logged, the entry is deleted,
\* and StartClient goes on to return nil
Finish ==
    /\ client.pc = "done"
    /\ Replied
    /\ IF Failed
       THEN DeleteQueueEntry("done", "nil")
       ELSE Return(client, "nil")

\* DeleteQueueEntry returns; its error is logged or ignored
Abort ==
    /\ client.pc = "delete"
    /\ Replied
    /\ Return(client, client.result)

\* One push: StartClient with a configured token or another one, against a
\* receiver that serves nobody else.
ClientInit ==
    /\ entries = [id \in Ids |-> NoEntry]
    /\ queue = {}
    /\ nextId = 1
    /\ staging = [n \in ObjectNames |-> Absent]
    /\ live = [n \in ObjectNames |-> Absent]
    /\ handlers = EmptyBag
    /\ response = NoResponse
    /\ \E scenario \in Scenarios : \E token \in {T1, T2} :
           /\ refs = [b \in Branches |-> IF b = "stable" THEN scenario.server ELSE NoRev]
           /\ client = [NoClient EXCEPT !.pc = "start", !.repo = scenario.repo,
                                        !.header = Authorization(BEARER, token),
                                        !.branches = [b \in {"stable"} |-> "C1"]]

\* The parts of the PUT are those Client.Upload writes: the "file" part of
\* the object, then its "checksum" part, then the end of the stream.
PushSteps ==
    \/ GetInfo
    \/ NewQueueEntry
    \/ SendObjectsList
    \/ StartUpload
    \/ ContinueUpload
    \/ Finish
    \/ Abort
    \/ ServeInfo
    \/ ServeCreate
    \/ ServeDelete
    \/ ServeObjects
    \/ ServeUpload
    \/ ServeDone
    \/ \E rec \in BagToSet(handlers) : CreateAdd(rec, client.req.refs, client.req.objects)
    \/ \E rec \in BagToSet(handlers) : DeleteRemove(rec)
    \/ \E rec \in BagToSet(handlers) : ObjectsStat(rec)
    \/ \E rec \in BagToSet(handlers) :
           rec.nparts = 0 /\ UploadFilePart(rec, client.req.name)
    \/ \E rec \in BagToSet(handlers) : \E bytes \in PartData(rec.name) : UploadCopy(rec, bytes)
    \/ \E rec \in BagToSet(handlers) : UploadChecksum(rec)
    \/ \E rec \in BagToSet(handlers) :
           rec.nparts = 1 /\ UploadChecksumPart(rec, client.req.name, ClientChecksum)
    \/ \E rec \in BagToSet(handlers) :
           /\ rec.nparts = 1
           /\ rec.checksums[client.req.name] = ClientChecksum
           /\ UploadEOF(rec)
    \/ \E rec \in BagToSet(handlers) : DoneSetFinalizing(rec)
    \/ \E rec \in BagToSet(handlers) : MoveStat(rec)
    \/ \E rec \in BagToSet(handlers) : MoveOpen(rec)
    \/ \E rec \in BagToSet(handlers) : MoveCopy(rec)
    \/ \E rec \in BagToSet(handlers) : MoveRemove(rec)
    \/ \E rec \in BagToSet(handlers) : \E b \in Branches : UpdateRefs(rec, b)
    \/ \E rec \in BagToSet(handlers) : DoneRemove(rec)

\* the steps of the push and of the receiver, and the requests that fail in
\* httpClient.Do
ClientNext == TransportError \/ PushSteps

ClientSpec == ClientInit /\ [][ClientNext]_vars

\* ------------------------------------------------------------- properties
\* the handler rec takes this step
Leaves(rec) == CopiesIn(rec, handlers') < CopiesIn(rec, handlers)

\* this step is a request answered by its first step, with no handler left
Immediate(kind) == handlers' = handlers /\ response'.kind = kind

\* the handlers of this kind that serve the entry id
Serving(kind, id, hs) ==
    CopiesIn(<<kind, id>>, BagOfAll(LAMBDA r : <<r.kind, r.id>>, hs))

\* the names of the list objs
Names(objs) == { objs[k] : k \in 1..Len(objs) }

\* an entry of the table is updating the branch
Busy(branch) == \E id \in queue : branch \in DOMAIN entries[id].UpdateRefs

\* the table and its entries are what they were
QueueUnchanged ==
    /\ queue' = queue
    /\ nextId' = nextId
    /\ \A id \in queue : entries'[id] = entries[id]

C2_SingleWriterPerBranch ==
    \A id1, id2 \in queue :
        id1 # id2 =>
            DOMAIN entries[id1].UpdateRefs \cap DOMAIN entries[id2].UpdateRefs = {}

C4_PromotedContentMatches ==
    \A n \in ObjectNames :
        live[n] \in {Absent, Empty} \/ CalculateChecksum(live[n]) = ClientChecksum

\* C5: when an upload handler that stored the file part of an object reads
\* a checksum part for it with another digest, it replies 422, the staged
\* file of the object is absent, and the entry is in the table with
\* Finalizing false.
C5_ChecksumGate ==
    [][ \A rec \in BagToSet(handlers) : \A n \in ObjectNames :
            /\ rec.kind = "upload" /\ Leaves(rec)
            /\ rec.checksums[n] # "" /\ rec.checksums[n] # ClientChecksum
            /\ response'.kind = "upload" /\ response'.text = BadChecksum
            /\ response'.objects = <<n>>
            => /\ response'.status = StatusUnprocessableEntity
               /\ staging'[n] = Absent
               /\ rec.id \in queue' /\ ~entries'[rec.id].Finalizing ]_vars

\* the staged file and the live file of the object are both absent
IsMissing(n) == staging[n] = Absent /\ live[n] = Absent

\* C6: a missing-objects request changes neither the table nor the staging
\* directory, the live store or the refs; each name of the entry's list is
\* reported if and only if, when the handler examines it, it exists neither
\* in staging nor in the live store; and the reply holds every name of the
\* list that is missing when the reply is written, and names of the list
\* only.
C6_MissingObjectsExact ==
    [][ /\ \A rec \in BagToSet(handlers) :
               rec.kind = "objects" /\ Leaves(rec) =>
                   LET objs == entries[rec.id].Objects
                       found == IF IsMissing(objs[rec.i])
                                THEN Append(rec.missing, objs[rec.i]) ELSE rec.missing
                   IN /\ QueueUnchanged
                      /\ UNCHANGED <<staging, live, refs>>
                      /\ IF rec.i < Len(objs)
                         THEN handlers' = With(Without(rec),
                                               [rec EXCEPT !.i = @ + 1, !.missing = found])
                         ELSE /\ response' = [Reply("objects", rec.id, StatusOK, "")
                                                 EXCEPT !.objects = found]
                              /\ Names(found) \subseteq Names(objs)
                              /\ \A n \in Names(objs) : IsMissing(n) => n \in Names(found)
        /\ (Immediate("objects") \/ \E id \in Ids :
                Serving("objects", id, handlers') > Serving("objects", id, handlers))
               => QueueUnchanged /\ UNCHANGED <<staging, live, refs>> ]_vars

\* of a commit and a file, the commit is staged or live and the file is
\* reported missing
C6_Witness ==
    /\ response.kind = "objects" /\ response.status = StatusOK
    /\ response.objects = <<"f1.file">>
    /\ ~IsMissing("c1.commit") /\ IsMissing("f1.file")

\* C7: a create request is refused, with status 500 and the message that
\* names a branch an entry of the table is updating, only when there is such
\* a branch; the refusal leaves the table and its entries as they were; and
\* no create request whose walk meets such a branch goes on to add an entry.
C7_CreateConflict ==
    [][ /\ Immediate("create") =>
               /\ response'.status = StatusInternalServerError
               /\ \E b \in Branches : Busy(b) /\ response'.text = AlreadyUpdating(b)
               /\ QueueUnchanged
        /\ \A r \in BagToSet(handlers') :
               r.pc = "create_add" /\ CopiesIn(r, handlers') > CopiesIn(r, handlers)
                   => \A b \in r.todo : ~Busy(b) ]_vars

\* a second push to stable was refused while the first is in the table
C7_Witness ==
    /\ response.kind = "create" /\ response.status = StatusInternalServerError
    /\ response.text = AlreadyUpdating("stable")
    /\ \E id \in queue : "stable" \in DOMAIN entries[id].UpdateRefs

\* C8: of the done requests for one entry, at most one is past the check of
\* Finalizing.
C8_FinalizeOnce ==
    \A id \in Ids : Serving("done", id, handlers) <= 1

\* C9: while Finalizing is set on an entry of the table, an upload request
\* for it that arrives is answered 422 at once: no upload handler starts
\* for the entry and the staging directory is left as it was.
C9_ClosedForUpload ==
    [][ \A id \in queue :
            entries[id].Finalizing =>
                /\ Serving("upload", id, handlers') <= Serving("upload", id, handlers)
                /\ Immediate("upload") /\ response'.id = id
                       => /\ response'.status = StatusUnprocessableEntity
                          /\ response'.text = AlmostDone
                          /\ staging' = staging ]_vars

\* an upload was refused because the entry is being finalized
C9_Witness ==
    /\ response.kind = "upload" /\ response.status = StatusUnprocessableEntity
    /\ response.text = AlmostDone
    /\ response.id \in queue /\ entries[response.id].Finalizing

\* C10: a done handler that finds the staged file of an object gone when it
\* opens it fails with 500; a done handler that fails while it moves the
\* objects has set no branch, and its failure changes no branch; a branch
\* changes only by a step of UpdateRefs.
C10_FailedPromotionKeepsRefs ==
    [][ /\ \A rec \in BagToSet(handlers) :
               rec.kind = "done" /\ Leaves(rec) =>
                   /\ rec.pc = "mv_open" /\ staging[rec.name] = Absent
                          => /\ response'.kind = "done"
                             /\ response'.status = StatusInternalServerError
                             /\ response'.text = UnableToMove
                   /\ response'.kind = "done" /\ response'.text = UnableToMove
                          => /\ response'.status = StatusInternalServerError
                             /\ rec.nset = 0
                             /\ refs' = refs
                   /\ rec.pc # "refs" => refs' = refs
        /\ refs' # refs => \E rec \in BagToSet(handlers) : rec.pc = "refs" /\ Leaves(rec) ]_vars

\* done failed on an object that was never uploaded and no branch was set
C10_Witness ==
    /\ response.kind = "done" /\ response.status = StatusInternalServerError
    /\ response.text = UnableToMove
    /\ IsMissing("f1.file")
    /\ \A b \in Branches : refs[b] = NoRev

\* C11: when a done handler replies 200, every branch of its entry's
\* UpdateRefs is at the client revision of the entry, the entry is no longer
\* in the table, and no entry of the table is updating one of its branches.
C11_DonePostcondition ==
    [][ \A rec \in BagToSet(handlers) :
            /\ rec.kind = "done" /\ Leaves(rec)
            /\ response'.kind = "done" /\ response'.status = StatusOK
            => /\ \A b \in DOMAIN entries[rec.id].UpdateRefs :
                      /\ refs'[b] = entries[rec.id].UpdateRefs[b].Client
                      /\ ~\E id \in queue' : b \in DOMAIN entries'[id].UpdateRefs
               /\ rec.id \notin queue' ]_vars

\* C12: a done handler fails to move an object of its entry only when the
\* object is neither staged nor in the live store; so a done request on an
\* entry whose objects were all uploaded does not fail in the promotion.
C12_CompleteUploadFinalizes ==
    [][ \A rec \in BagToSet(handlers) :
            /\ rec.kind = "done" /\ Leaves(rec)
            /\ response'.kind = "done" /\ response'.text = UnableToMove
            => IsMissing(rec.name) ]_vars

\* C13: a delete request changes neither the staging directory nor the live
\* store nor the refs; it takes out of the table at most its own entry and
\* leaves the other entries as they are; when it replies 200 its entry is
\* not in the table; for an id that is not in the table it replies 404 and
\* changes nothing; and an id that left the table never comes back, since
\* only fresh ids are added.
C13_DeleteSemantics ==
    [][ /\ \A rec \in BagToSet(handlers) :
               rec.kind = "delete" /\ Leaves(rec) =>
                   /\ UNCHANGED <<staging, live, refs, nextId>>
                   /\ queue' = queue \ {rec.id}
                   /\ \A id \in queue' : entries'[id] = entries[id]
                   /\ response'.kind = "delete" /\ response'.id = rec.id
                   /\ response'.status = (IF rec.id \in queue THEN StatusOK
                                          ELSE StatusUnprocessableEntity)
        /\ Immediate("delete") =>
               /\ response'.status = StatusNotFound
               /\ response'.id \notin queue
               /\ QueueUnchanged /\ UNCHANGED <<staging, live, refs>>
        /\ (\E id \in Ids : Serving("delete", id, handlers') > Serving("delete", id, handlers))
               => QueueUnchanged /\ UNCHANGED <<staging, live, refs>>
        /\ queue' \ queue \subseteq {nextId} /\ nextId' >= nextId ]_vars

\* an entry with a staged object was deleted: the staged file is still there
C13_Witness ==
    /\ response.kind = "delete" /\ response.status = StatusOK
    /\ response.id \notin queue
    /\ staging["c1.commit"] = Good

\* C14: when a delete request replies 200, the refs are what they were and
\* no entry of the table is updating a branch of the deleted entry, so that
\* a new create for these branches is accepted.
C14_AbortReleasesBranch ==
    [][ \A rec \in BagToSet(handlers) :
            /\ rec.kind = "delete" /\ Leaves(rec)
            /\ response'.kind = "delete" /\ response'.status = StatusOK
            => /\ refs' = refs
               /\ \A b \in DOMAIN entries[rec.id].UpdateRefs :
                      ~\E id \in queue' : b \in DOMAIN entries'[id].UpdateRefs ]_vars

\* C15: no two done handlers past the check of Finalizing serve two
\* different entries whose UpdateRefs share a branch.
C15_NoRacingFinalizations ==
    \A r1, r2 \in BagToSet(handlers) :
        r1.kind = "done" /\ r2.kind = "done" /\ r1.id # r2.id =>
            DOMAIN entries[r1.id].UpdateRefs \cap DOMAIN entries[r2.id].UpdateRefs = {}

\* C16: an upload handler that reads a part leaves every staged file that
\* exists as it is: a "file" part for a name that has a staged file neither
\* truncates nor overwrites it, and the request fails.
C16_AlreadyStaged ==
    [][ \A rec \in BagToSet(handlers) :
            rec.kind = "upload" /\ rec.pc = "up_part" /\ Leaves(rec) =>
                \A n \in ObjectNames :
                    staging[n] # Absent =>
                        /\ staging'[n] = staging[n]
                        /\ ~\E r \in BagToSet(handlers') :
                               /\ r.pc = "up_copy" /\ r.name = n
                               /\ CopiesIn(r, handlers') > CopiesIn(r, handlers) ]_vars

\* C17: of the upload handlers that are writing a "file" part, at most one
\* holds the staged file of a given name open.
C17_ExclusiveCreate ==
    \A n \in ObjectNames :
        CopiesIn(<<"up_copy", n, TRUE>>,
                 BagOfAll(LAMBDA r : <<r.pc, r.name, r.linked>>, handlers)) <= 1

\* the commits of the history of rev that the repository holds
RECURSIVE Ancestors(_, _)
Ancestors(repo, rev) ==
    IF rev \notin DOMAIN repo.parent
    THEN {}
    ELSE {rev} \cup Ancestors(repo, repo.parent[rev])

\* the local history of the branch ends at a commit without parent and the
\* revision of the receiver, which is not empty, is not part of it
NonDescendant(branch) ==
    /\ refs[branch] # NoRev
    /\ refs[branch] \notin Ancestors(client.repo, client.branches[branch])
    /\ \E c \in Ancestors(client.repo, client.branches[branch]) :
           client.repo.parent[c] = NoRev

\* C18: when the history of a pushed branch ends at a commit without parent
\* and does not contain the non-empty revision the receiver has, no step
\* changes the queue, the staging directory, the live store or the refs, the
\* only request the client ever issues is GET /info, and StartClient, once
\* it has the response, returns an error: that of FindNeededCommits when the
\* response is a 200.
C18_NonDescendantRejection ==
    [][ (\E b \in DOMAIN client.branches : NonDescendant(b)) =>
            /\ UNCHANGED <<queue, entries, nextId, staging, live, refs>>
            /\ client'.sent \in {<<>>, <<"info">>}
            /\ client'.queueID = 0
            /\ client.pc = "info" /\ client'.pc # "info" =>
                   /\ client'.pc = "returned" /\ client'.result = "error"
                   /\ response.status = StatusOK => client'.err = "closure" ]_vars

\* the push of a history that does not contain the revision of the receiver
\* has failed while building the closure, after a successful GET /info
C18_Witness ==
    /\ client.pc = "returned"
    /\ client.err = "closure"
    /\ client.result = "error"
    /\ client.repo = ChainRepo
    /\ NonDescendant("stable")
    /\ response.kind = "info" /\ response.status = StatusOK

\* C19: StartClient returns an error when a phase has failed, and returns
\* nil only when there was nothing to update or when done was answered 200
\* and every branch is at the client revision.
C19_OutcomeReflectsFailure ==
    client.pc = "returned" =>
        /\ client.err # "" => client.result = "error"
        /\ client.result = "nil" =>
               \/ client.sent = <<"info">> /\ CheckUpdate(client.branches, refs) = <<>>
               \/ /\ response.kind = "done" /\ response.status = StatusOK
                  /\ \A b \in DOMAIN client.updateRefs :
                         refs[b] = client.updateRefs[b].Client

\* the headers that carry a configured token
Authorized ==
    { Authorization(scheme, token) : scheme \in {BEARER, Bearer}, token \in Tokens }

\* C20: the step that answers a request to an /api/v1 endpoint whose header
\* carries no configured token writes a 401, starts no handler and leaves
\* the queue, the staging directory, the live store and the refs as they
\* are; GET /ping is answered 200 whatever the header is.
C20_AuthenticationGate ==
    [][ client' = client /\ client.req # NoRequest /\ Pending(client.req.kind) =>
            IF client.req.kind = "ping"
            THEN response'.status = StatusOK
            ELSE client.req.header \notin Authorized =>
                     /\ response'.status = StatusUnauthorized
                     /\ handlers' = EmptyBag
                     /\ UNCHANGED <<queue, entries, nextId, staging, live, refs>> ]_vars

\* GET /done/{id} for an entry of the table whose objects are staged, with a
\* token that is not configured, was answered 401
C20_Witness ==
    /\ response.kind = "done"
    /\ response.status = StatusUnauthorized
    /\ client.req.header = Authorization(BEARER, T2)
    /\ client.req.id \in queue
    /\ \A k \in 1..Len(entries[client.req.id].Objects) :
           staging[entries[client.req.id].Objects[k]] # Absent

\* a request of one of the four kinds that name an entry, for an id that is
\* not in the table, is answered 404 by its first step, which changes
\* nothing; and no handler of these kinds starts for such an id
UnknownIdRejected ==
    /\ Immediate(response'.kind)
       /\ response'.kind \in {"objects", "upload", "delete", "done"}
       /\ response'.id \notin queue
       => /\ response'.status = StatusNotFound
          /\ UNCHANGED <<queue, entries, nextId, staging, live, refs>>
    /\ \A kind \in {"objects", "upload", "delete", "done"} : \A id \in Ids :
           Serving(kind, id, handlers') > Serving(kind, id, handlers) => id \in queue

\* a step of an upload that creates or writes a staged file, and a step of a
\* done that writes a live object or sets a ref, is taken for an entry of
\* the table
EffectsWhileEntered ==
    \A rec \in BagToSet(handlers) :
        /\ Leaves(rec)
        /\ \/ rec.pc = "up_part" /\ \E n \in ObjectNames :
                  staging'[n] = Empty /\ staging[n] # Empty
           \/ rec.pc = "up_copy" /\ staging'[rec.name] # staging[rec.name]
                                 /\ staging'[rec.name] # Absent
           \/ rec.pc \in {"mv_open", "mv_copy"} /\ live' # live
           \/ rec.pc = "refs" /\ refs' # refs
        => rec.id \in queue

\* C21: a request to GET, PUT or DELETE /queue/{id} or GET /done/{id} whose
\* id is not in the table is answered 404 and changes nothing, and no upload
\* or done has an effect on staging, live store or refs while its entry is
\* not in the table.
C21_PhaseOrdering == [][UnknownIdRejected /\ EffectsWhileEntered]_vars

\* what ObjectsHandler returns for a list of names when it finds the staging
\* directory as st and the live store as lv
MissingIn(objs, st, lv) == SelectSeq(objs, LAMBDA n : st[n] = Absent /\ lv[n] = Absent)

\* C22: when an upload to an entry is rejected with 422 for the checksum of
\* an object of the entry's list that is not in the live store, the entry is
\* still open and a missing-objects request that follows lists the object
\* again.
C22_BadChecksumRecovery ==
    [][ \A rec \in BagToSet(handlers) : \A n \in ObjectNames :
            /\ rec.kind = "upload" /\ Leaves(rec)
            /\ response'.kind = "upload" /\ response'.text = BadChecksum
            /\ response'.objects = <<n>>
            /\ n \in Names(entries[rec.id].Objects) /\ live[n] = Absent
            => /\ rec.id \in queue' /\ ~entries'[rec.id].Finalizing
               /\ n \in Names(MissingIn(entries'[rec.id].Objects, staging', live')) ]_vars

\* ------------------------------------------------------------ shared store
\* One push against a receiver where another push is in progress: entry 1
\* updates devel to the same commit and its upload has staged c1.commit.
SharedInit ==
    /\ entries = [id \in Ids |->
                     IF id = 1
                     THEN [UpdateRefs |-> [b \in {"devel"} |-> RevisionPair(1)],
                           Objects |-> <<"c1.commit">>, Finalizing |-> FALSE]
                     ELSE NoEntry]
    /\ queue = {1}
    /\ nextId = 2
    /\ staging = [n \in ObjectNames |-> IF n = "c1.commit" THEN Good ELSE Absent]
    /\ live = [n \in ObjectNames |-> Absent]
    /\ handlers = EmptyBag
    /\ response = NoResponse
    /\ \E scenario \in Scenarios : \E token \in {T1, T2} :
           /\ refs = [b \in Branches |-> IF b = "stable" THEN scenario.server ELSE NoRev]
           /\ client = [NoClient EXCEPT !.pc = "start", !.repo = scenario.repo,
                                        !.header = Authorization(BEARER, token),
                                        !.branches = [b \in {"stable"} |-> "C1"]]

SharedSpec == SharedInit /\ [][ClientNext]_vars

\* C23: while entry 1 is open, the reply to the first missing-objects
\* request of another entry, to which nothing was uploaded yet, lists every
\* name of its list that is not in the live store, whether or not a file of
\* that name is staged; and the done of that entry moves to the live store
\* only objects that were listed and uploaded to it.
C23_ExclusiveStagedFiles ==
    [][ /\ client.pc = "objects" /\ 1 \in queue /\ client.queueID # 1
           /\ response'.kind = "objects" /\ response'.status = StatusOK
           => \A n \in Names(entries[client.queueID].Objects) :
                  live[n] = Absent => n \in Names(response'.objects)
        /\ \A rec \in BagToSet(handlers) : \A n \in ObjectNames :
               /\ rec.kind = "done" /\ rec.id # 1 /\ Leaves(rec) /\ 1 \in queue
               /\ live[n] = Absent /\ live'[n] # Absent
               => n \notin Names(entries[1].Objects) ]_vars

\* ------------------------------------------------------------ object lists
\* Bodies of POST /queue whose list of objects names an object twice, names
\* no object, or leaves out the commit object of the revision.
ListRequests ==
    { [Refs |-> {"stable"}, Objects |-> <<"f1.file", "c1.commit", "f1.file">>],
      [Refs |-> {"devel"}, Objects |-> <<>>],
      [Refs |-> {"devel"}, Objects |-> <<"f1.file">>] }

\* the receiver behind its router, with these bodies too
ListNext ==
    \/ \E q \in ListRequests :
           Request([NoRequest EXCEPT !.kind = "create", !.objects = q.Objects,
                                     !.header = Authorization(BEARER, T1),
                                     !.refs = [b \in q.Refs |-> RevisionPair(nextId)]])
    \/ GateNext

ListSpec == Init /\ [][ListNext]_vars

\* sub is what is left of the list objs when some of its elements are taken
\* out
RECURSIVE IsSubsequence(_, _)
IsSubsequence(sub, objs) ==
    IF sub = <<>> THEN TRUE
    ELSE IF objs = <<>> THEN FALSE
    ELSE IF Head(sub) = Head(objs) THEN IsSubsequence(Tail(sub), Tail(objs))
    ELSE IsSubsequence(sub, Tail(objs))

\* C24: the list a missing-objects request returns holds names of the
\* entry's list in the order of that list, each of them once.
C24_MissingListShape ==
    [][ \A id \in Ids :
            /\ response'.kind = "objects" /\ response'.status = StatusOK
            /\ response'.id = id /\ id \in queue
            => /\ IsSubsequence(response'.objects, entries[id].Objects)
               /\ \A j, k \in 1..Len(response'.objects) :
                      response'.objects[j] = response'.objects[k] => j = k ]_vars

\* the entry is in the table, marked as finalizing, and no done request is
\* serving it
Stuck(id) ==
    /\ id \in queue
    /\ entries[id].Finalizing
    /\ Serving("done", id, handlers) = 0

\* a stuck entry stays in the table with Finalizing set unless a delete
\* request removes it; a done request for it is answered 500 "already
\* finalizing" and an upload request 422 by their first step, and no create
\* request for one of its branches gets past the walk of the queue
StuckStaysStuck ==
    \A id \in Ids : Stuck(id) =>
        /\ id \in queue' => entries'[id].Finalizing
        /\ id \notin queue' =>
               \E rec \in BagToSet(handlers) :
                   rec.kind = "delete" /\ rec.id = id /\ Leaves(rec)
        /\ Serving("done", id, handlers') = 0
        /\ Serving("upload", id, handlers') <= Serving("upload", id, handlers)
        /\ Immediate("done") /\ response'.id = id =>
               /\ response'.status = StatusInternalServerError
               /\ response'.text = AlreadyFinalizing
        /\ Immediate("upload") /\ response'.id = id =>
               /\ response'.status = StatusUnprocessableEntity
               /\ response'.text = AlmostDone
        /\ \A r \in BagToSet(handlers') :
               r.pc = "create_add" /\ CopiesIn(r, handlers') > CopiesIn(r, handlers)
               => r.todo \cap DOMAIN entries[id].UpdateRefs = {}

\* the step that follows the reply of a failed done, with the entry still in
\* the table: the entry stays, with Finalizing set, unless a delete removes it
FailedDoneKeepsEntry ==
    \A id \in Ids :
        /\ response.kind = "done" /\ response.id = id
        /\ response.text = UnableToMove
        /\ id \in queue
        => /\ id \in queue' => entries'[id].Finalizing
           /\ id \notin queue' =>
                  \E rec \in BagToSet(handlers) :
                      rec.kind = "delete" /\ rec.id = id /\ Leaves(rec)

\* C25: after a done request for an entry has failed the entry stays in the
\* table with Finalizing set until a delete request removes it, and while it
\* is stuck every done request for it is answered "already finalizing",
\* every upload request "almost done", and every create request for one of
\* its branches is refused.
C25_StuckInFinalizing == [][FailedDoneKeepsEntry /\ StuckStaysStuck]_vars

\* ------------------------------------------------------- the needed commits
\* The commits a local repository may hold, oldest first: the parent of a
\* commit is an older commit, so that no history has a cycle.
Commits == {"C0", "C1", "C2"}
Age == ("C0" :> 0) @@ ("C1" :> 1) @@ ("C2" :> 2)

\* the repositories over these commits: linear histories, unrelated roots,
\* and shallow ones, where the parent of a commit is not held
Histories ==
    UNION { { [parent |-> parent] :
                parent \in { p \in [held -> Commits \cup {NoRev}] :
                                \A c \in held : p[c] # NoRev => Age[p[c]] < Age[c] } } :
            held \in (SUBSET Commits) \ {{}} }

\* the revisions FindNeededCommits is called with; X0 is in no repository
WalkInit ==
    /\ entries = [id \in Ids |-> NoEntry]
    /\ queue = {}
    /\ nextId = 1
    /\ staging = [n \in ObjectNames |-> Absent]
    /\ live = [n \in ObjectNames |-> Absent]
    /\ refs = [b \in Branches |-> NoRev]
    /\ handlers = EmptyBag
    /\ response = NoResponse
    /\ \E repo \in Histories : \E remoteRev \in Commits \cup {NoRev, "X0"} :
       \E localRev \in Commits :
           client = [pc |-> "call", repo |-> repo, remoteRev |-> remoteRev,
                     localRev |-> localRev, commits |-> <<>>, err |-> ""]

\* neededCommits, err := p.FindNeededCommits(revs.Server, revs.Client)
CallFindNeededCommits ==
    /\ client.pc = "call"
    /\ LET needed == FindNeededCommits(client.repo, client.remoteRev, client.localRev)
       IN client' = [client EXCEPT !.pc = "returned", !.commits = needed.commits,
                                   !.err = needed.err]
    /\ UNCHANGED <<entries, queue, nextId, staging, live, refs, handlers, response>>

WalkSpec == WalkInit /\ [][CallFindNeededCommits]_vars

\* the sequences of commits of the repository where each is followed by
\* its parent
ParentChains(repo) ==
    UNION { { s \in [1..n -> DOMAIN repo.parent] :
                \A k \in 1..(n - 1) : repo.parent[s[k]] = s[k + 1] } :
            n \in 1..Cardinality(Commits) }

\* C26: when the parent chain of local_rev leads to a commit whose parent is
\* server_rev (the root of the history, when server_rev is empty),
\* FindNeededCommits returns without error exactly that chain, from
\* local_rev on and without server_rev; when local_rev is server_rev it
\* returns the empty list.
C26_NeededCommitWalk ==
    client.pc = "returned" =>
        /\ client.localRev = client.remoteRev =>
               client.err = "" /\ client.commits = <<>>
        /\ \A chain \in ParentChains(client.repo) :
               /\ chain[1] = client.localRev
               /\ client.localRev # client.remoteRev
               /\ client.repo.parent[chain[Len(chain)]] = client.remoteRev
               => client.err = "" /\ client.commits = chain

\* the walk returned two commits and stopped at the revision of the server
C26_Witness ==
    /\ client.pc = "returned"
    /\ client.remoteRev = "C0"
    /\ client.localRev = "C2"
    /\ client.err = ""
    /\ client.commits = <<"C2", "C1">>

\* ------------------------------------------------------------ the branches
\* Pushes of one or both branches, each at C1 in the local repository,
\* against every state of the two branches on the receiver the repository
\* has the history for: a new repository without the receiver's C0, and one
\* that holds C0 as the parent of C1.
Pushes ==
    LET local == { [b \in pushed |-> "C1"] : pushed \in (SUBSET Branches) \ {{}} }
    IN { [repo |-> RootRepo, branches |-> l, server |-> s] :
             l \in local, s \in [Branches -> {NoRev, "C1"}] }
       \cup
       { [repo |-> ChainRepo, branches |-> l, server |-> s] :
             l \in local, s \in [Branches -> {"C0", "C1"}] }

BranchesInit ==
    /\ entries = [id \in Ids |-> NoEntry]
    /\ queue = {}
    /\ nextId = 1
    /\ staging = [n \in ObjectNames |-> Absent]
    /\ live = [n \in ObjectNames |-> Absent]
    /\ handlers = EmptyBag
    /\ response = NoResponse
    /\ \E push \in Pushes :
           /\ refs = push.server
           /\ client = [NoClient EXCEPT !.pc = "start", !.repo = push.repo,
                                        !.header = Authorization(BEARER, T1),
                                        !.branches = push.branches]

BranchesSpec == BranchesInit /\ [][ClientNext]_vars

\* the requested branches whose local revision is not the one of the receiver
Outdated == { b \in DOMAIN client.branches : client.branches[b] # refs[b] }

\* C27: the step of the client that follows the response to info submits
\* to create, when it submits, exactly the requested branches whose local
\* revision differs from the revision the receiver has (empty for a branch
\* the receiver does not have), each with the pair (server revision, local
\* revision); it submits nothing when no branch differs; no create request
\* carries a pair whose client revision is its server revision.
C27_UpdateSet ==
    [][ /\ client.pc = "info" /\ Replied /\ ~Failed /\ client'.pc # "info" =>
            /\ Outdated = {} => client'.pc = "returned" /\ client'.result = "nil"
            /\ client'.pc = "create" =>
                   /\ DOMAIN client'.req.refs = Outdated
                   /\ \A b \in Outdated :
                          client'.req.refs[b] =
                              [Server |-> refs[b], Client |-> client.branches[b]]
        /\ client'.req.kind = "create" =>
               \A b \in DOMAIN client'.req.refs :
                   client'.req.refs[b].Client # client'.req.refs[b].Server ]_vars

\* both branches were requested, stable is at the local revision on the
\* receiver, and the create request carries devel alone
C27_Witness ==
    /\ client.pc = "create"
    /\ client.req.kind = "create"
    /\ DOMAIN client.branches = {"stable", "devel"}
    /\ refs["stable"] = client.branches["stable"]
    /\ DOMAIN client.req.refs = {"devel"}

\* C28: the step that answers "unsupported form field" is the step of an
\* upload handler at a part of its stream; it writes 422, the handler
\* returns with it, so that no later part is read, and the table, its
\* entries, the staged files, the live store and the refs are as before.
C28_UnsupportedPart ==
    [][ response'.kind = "upload" /\ response'.text = "unsupported form field" =>
            /\ response'.status = StatusUnprocessableEntity
            /\ \E rec \in BagToSet(handlers) :
                   /\ rec.kind = "upload" /\ rec.pc = "up_part" /\ rec.id = response'.id
                   /\ handlers' = Without(rec)
            /\ \A id \in queue : entries'[id] = entries[id]
            /\ UNCHANGED <<queue, nextId, staging, live, refs>> ]_vars

\* an upload was refused for an unsupported part after a file part of the
\* same stream was stored; its entry is in the table and not finalizing
C28_Witness ==
    /\ response.kind = "upload"
    /\ response.text = "unsupported form field"
    /\ response.id \in queue
    /\ ~entries[response.id].Finalizing
    /\ handlers = EmptyBag
    /\ \E n \in ObjectNames : staging[n] # Absent

\* the commit of a revision is the object <revision>.commit of the
\* repository; c1.commit is the one the pushes of the model upload
CommitObject == [rev \in {"C1"} |-> "c1.commit"]

\* C29: every branch of the repository that is at a revision whose commit
\* object the pushes know points to a commit that exists in the live store.
C29_RefsNeverDangle ==
    \A b \in Branches :
        refs[b] \in DOMAIN CommitObject => live[CommitObject[refs[b]]] # Absent

\* a done handler is between the creation of the live file of the object
\* and the end of the copy of the staged content into it
Promoting(objectName) ==
    \E mover \in BagToSet(handlers) :
        mover.kind = "done" /\ mover.pc = "mv_copy" /\ mover.name = objectName

\* the step of the handler is the os.Stat of the live path of the object:
\* by the scan of a missing-objects request, when nothing is staged under
\* the name, or by the loop of a done
StatsLivePath(rec, objectName) ==
    /\ Leaves(rec)
    /\ \/ /\ rec.kind = "objects" /\ rec.pc = "obj_stat"
          /\ entries[rec.id].Objects[rec.i] = objectName
          /\ staging[objectName] = Absent
       \/ /\ rec.kind = "done" /\ rec.pc = "mv_stat"
          /\ rec.name = objectName

\* no handler finds the live path of an object while a done is copying
\* the object into it
NoPartialObjectSeen ==
    \A rec \in BagToSet(handlers) : \A n \in ObjectNames :
        StatsLivePath(rec, n) /\ live[n] # Absent => ~Promoting(n)

\* an object a done is moving, past the opening of both files, exists in
\* staging or in the live store
NeverAbsentFromBoth ==
    \A rec \in BagToSet(handlers) :
        rec.kind = "done" /\ rec.pc \in {"mv_copy", "mv_remove"}
        => staging[rec.name] # Absent \/ live[rec.name] # Absent

\* C30: the move of an object from staging to the live store is one step
\* for every observer: no missing-objects or done request finds the live
\* path while the content is being copied into it, and an object being
\* moved is never absent from both staging and the live store.
C30_AtomicPromotion == [][NoPartialObjectSeen /\ NeverAbsentFromBoth]_vars

\* when the loop of a done handler examines an object that exists in the
\* live store, the step changes neither the live store nor the staged
\* files, and the handler does not go on to move that object
SkipsExisting ==
    \A rec \in BagToSet(handlers) :
        /\ rec.kind = "done" /\ rec.pc = "mv_stat" /\ Leaves(rec)
        /\ live[rec.name] # Absent
        => /\ live' = live
           /\ staging' = staging
           /\ ~\E next \in BagToSet(handlers') :
                  /\ next.kind = "done" /\ next.id = rec.id
                  /\ next.pc = "mv_open" /\ next.name = rec.name
                  /\ CopiesIn(next, handlers') > CopiesIn(next, handlers)

\* a live object whose content was written in full keeps it
LiveContentKept ==
    \A n \in ObjectNames : live[n] \in {Good, Bad} => live'[n] = live[n]

\* C31: a done handler skips every object it finds in the live store, and
\* no step of a done request, whatever other done requests do in between,
\* rewrites or truncates an object that is in the live store.
C31_ExistingObjectsUntouched == [][SkipsExisting /\ LiveContentKept]_vars

\* --------------------------------------------------------- reachable server
\* The push against a receiver that the request of DeleteQueueEntry always
\* reaches; the requests before it may still fail in httpClient.Do.  The
\* client is one sequential program and the receiver serves each request in
\* a goroutine of its own, so a step that can be taken is taken.
ReachableNext ==
    \/ client.req.kind # "delete" /\ TransportError
    \/ PushSteps

ReachableSpec == ClientInit /\ [][ReachableNext]_vars /\ WF_vars(ReachableNext)

\* the step of the client after the missing-objects request, an upload or
\* the done of its entry has failed sends DELETE /queue/{id} for the entry
AbortsOnFailure ==
    /\ client.pc \in {"objects", "upload", "done"}
    /\ client'.pc # client.pc \/ client'.req # client.req
    /\ IF client.pc = "upload" THEN response.status = 0 ELSE Failed
    => /\ client'.pc = "delete"
       /\ client'.req.kind = "delete"
       /\ client'.req.id = client.queueID

\* C32: after a failed missing-objects request, upload or done the client
\* sends DELETE for its entry before it returns, and every entry that is
\* in the table is eventually out of it.
C32_ClientAbortsOnFailure ==
    /\ [][AbortsOnFailure]_vars
    /\ \A id \in Ids : (id \in queue) ~> (id \notin queue)

\* the done request of the push did not get through, the client has sent
\* the delete and returned, and the entry it had created is gone
C32_Witness ==
    /\ client.pc = "returned"
    /\ client.err = "done"
    /\ client.queueID = 1
    /\ nextId = 2
    /\ 1 \notin queue
    /\ response.kind = "delete" /\ response.status = StatusOK

\* the PUT of the client was answered, with a status that is not 200
Rejected ==
    /\ client.pc = "upload"
    /\ Replied
    /\ response.kind = "upload"
    /\ response.status \notin {0, StatusOK}

\* C33: the step of the client after a PUT that the receiver answered with
\* a status other than 200 is the next PUT or, after the last object, the
\* done request, with no error recorded and no delete; and the push whose
\* done is answered 200 returns nil without an error, whatever the answers
\* to its PUTs were.
C33_UploadResponseDiscarded ==
    [][ /\ Rejected /\ client' # client =>
            /\ client'.req.kind = IF Len(client.wanted) > 1 THEN "upload" ELSE "done"
            /\ client'.req.id = client.queueID
            /\ client'.err = ""
        /\ client.pc = "done" /\ Replied /\ ~Failed /\ client' # client =>
            /\ client'.pc = "returned"
            /\ client'.result = "nil"
            /\ client'.err = "" ]_vars

\* the push has returned nil without an error and the file it uploaded is
\* in the live store with damaged content: its PUT was answered 422
C33_Witness ==
    /\ client.pc = "returned"
    /\ client.result = "nil"
    /\ client.err = ""
    /\ live["f1.file"] = Bad

\* an object reached from a commit the push needs for one of its branches
\* is not at its path in the objects directory of the local repository
MissingOnDisk ==
    \E b \in DOMAIN client.branches :
        /\ client.branches[b] # refs[b]
        /\ LET needed == FindNeededCommits(client.repo, refs[b], client.branches[b])
           IN /\ needed.err = ""
              /\ \E k \in 1..Len(needed.commits) :
                     ~(client.repo.objects[needed.commits[k]] \subseteq client.repo.disk)

\* C34: a push from a repository where an object of a needed commit is not
\* on disk sends no create request and creates no queue entry, and it
\* returns an error.
C34_CorruptRepositoryStopsPush ==
    client.pc # "none" /\ MissingOnDisk =>
        /\ queue = {}
        /\ nextId = 1
        /\ \A k \in 1..Len(client.sent) : client.sent[k] = "info"
        /\ client.pc = "returned" => client.result = "error"

\* the push read the revisions of the receiver, found f1.file missing in
\* the local repository and returned the error of the enumeration
C34_Witness ==
    /\ client.pc = "returned"
    /\ client.repo = CorruptRepo
    /\ MissingOnDisk
    /\ client.err = "closure"
    /\ client.result = "error"
    /\ client.sent = <<"info">>

\* ------------------------------------------------------- unverified uploads
\* The receiver with upload requests that carry no "checksum" part.
FileOnlySpec == Init /\ [][GateSteps]_vars

\* C35: with upload requests that carry no checksum part, an upload request
\* that is answered 200 has stored no file part: a file whose digest was not
\* compared with one sent by the client is not accepted.
C35_AcceptedObjectsVerified ==
    [][ \A rec \in BagToSet(handlers) :
            /\ rec.kind = "upload" /\ Leaves(rec)
            /\ response'.kind = "upload" /\ response'.status = StatusOK
            => \A n \in ObjectNames : rec.checksums[n] = "" ]_vars

\* C36: a done handler that replies with a status other than 200 has set
\* no branch of its entry, and the failing step sets none.
C36_FailedDoneMovesNoRef ==
    [][ \A rec \in BagToSet(handlers) :
            /\ rec.kind = "done" /\ Leaves(rec)
            /\ response'.kind = "done" /\ response'.status # StatusOK
            => rec.nset = 0 /\ refs' = refs ]_vars

\* C37: once a delete request has replied 200 for an entry, no done handler
\* of that entry sets a branch: the step that follows the reply is not an
\* UpdateRefs of a done request on the same id.
C37_DeleteWinsOverDone ==
    [][ \A rec \in BagToSet(handlers) :
            /\ response.kind = "delete" /\ response.status = StatusOK
            /\ rec.kind = "done" /\ rec.id = response.id /\ Leaves(rec)
            => refs' = refs ]_vars

\* C38: a done handler sets a branch to the client revision of its entry
\* only when the branch is at the server revision the entry recorded for it
\* at create.
C38_NoLostUpdate ==
    [][ \A rec \in BagToSet(handlers) : \A b \in Branches :
            /\ rec.kind = "done" /\ rec.pc = "refs" /\ Leaves(rec)
            /\ b \in rec.todo /\ refs'[b] # refs[b]
            => refs[b] = entries[rec.id].UpdateRefs[b].Server ]_vars

\* C39: once the finalizing flag of an entry is set, no upload handler of
\* that entry creates a staged file or writes to one, the handlers that
\* passed the finalizing check before the flag was set included.
C39_NoStagingWriteWhileFinalizing ==
    [][ \A rec \in BagToSet(handlers) :
            /\ rec.kind = "upload" /\ rec.pc \in {"up_part", "up_copy"} /\ Leaves(rec)
            /\ rec.id \in queue /\ entries[rec.id].Finalizing
            => staging' = staging ]_vars

\* C40: a staged file created by an upload handler of an entry has the name
\* of one of the objects of that entry.
C40_UploadsInsideClosure ==
    [][ \A rec \in BagToSet(handlers) : \A n \in ObjectNames :
            /\ rec.kind = "upload" /\ rec.pc = "up_part" /\ Leaves(rec)
            /\ rec.id \in queue
            /\ staging[n] = Absent /\ staging'[n] # Absent
            => n \in Names(entries[rec.id].Objects) ]_vars

=============================================================================
